---- MODULE Spec2Model ----
(***************************************************************************)
(* TaskNest: the login state machine (password check, failed-attempt       *)
(* lockout, TOTP second factor, 2FA enrollment) of src/app.py and          *)
(* src/models.py, and the task / reminder ledger with its background       *)
(* reminder poller.                                                        *)
(*                                                                         *)
(* Time is counted in seconds.  A nullable column is the empty sequence    *)
(* (None) or a one-element sequence (Some(x)).  A request handler is one   *)
(* action; the poller, which runs on its own thread, is two (the query and *)
(* in-memory marking, then the commit).                                    *)
(***************************************************************************)
EXTENDS Integers, Sequences, FiniteSets, TLC

VARIABLES
    users,        \* table users: username -> row (models.py User)
    sessions,     \* browser sessions: session -> [user_id, pending_2fa_user_id]
    tasks,        \* table tasks: id -> row (models.py Task)
    reminders,    \* table reminders: id -> row (models.py Reminder)
    nextTaskId,   \* next primary key of tasks
    nextReminderId, \* next primary key of reminders
    progress,     \* table progress: the records in the order they were added
    seen,         \* mark_reminder_seen requests in flight: session -> the row read
    scheduler_started, \* the module's flag scheduler_started
    scheduler,    \* the BackgroundScheduler: [running, jobs, starts]
    pollerPc,     \* position of the check_reminders run of each job
    pollerBatch,  \* the pending_reminders list held by the run of each job
    pollerLog,    \* what the last commit of each job's runs printed
    now,          \* the wall clock (UTC seconds)
    response,     \* what the last request handler returned to its caller
    attempts      \* history: the authenticate calls made for each account

vars == <<users, sessions, tasks, reminders, nextTaskId, nextReminderId,
          progress, seen, scheduler_started, scheduler,
          pollerPc, pollerBatch, pollerLog, now, response, attempts>>

authVars == <<users, sessions, attempts>>
ledgerVars == <<tasks, reminders, nextTaskId, nextReminderId>>
pollerVars == <<pollerPc, pollerBatch, pollerLog>>
schedVars == <<scheduler_started, scheduler>>

----------------------------------------------------------------------------
(* Bounds of the model *)

\* the clock of Spec stops after this many steps of AuthStep seconds
MaxAuthClock == 3
\* the clock of SpecLedger stops after this many steps of LedgerStep seconds
MaxLedgerClock == 2
\* tasks ever created
MaxTasks == 1
\* reminders ever created
MaxReminders == 2
\* progress records held at a time
MaxProgress == 2

----------------------------------------------------------------------------
(* Program constants *)

\* app.py:186  "if user.failed_login_attempts >= 5"
MAX_FAILED_ATTEMPTS == 5
\* app.py:187  timedelta(minutes=15)
LOCKOUT_SECONDS == 900
\* app.py:378  timedelta(days=1)
DAY_SECONDS == 86400
\* pyotp.TOTP default interval
TOTP_INTERVAL == 30
\* models.py:59  valid_window=1
VALID_WINDOW == 1

----------------------------------------------------------------------------
(* Input sets *)

\* the usernames that register in Spec
Usernames == {"alice"}
\* a username no account ever has
LoginNames == Usernames \cup {"ghost"}
\* the accounts of SpecLedger
LedgerUsers == {"alice", "bob"}
Passwords == {"pw1", "pw2"}
Sessions == {"s1", "s2"}
\* the values pyotp.random_base32() may return
Secrets == {"k1", "k2"}
\* clock advances of Spec
AuthStep == LOCKOUT_SECONDS \div 2
AuthDeltas == {AuthStep, 2 * AuthStep}
\* clock advances of SpecLedger
LedgerStep == DAY_SECONDS \div 2
LedgerDeltas == {LedgerStep}
\* the offset of the server's local time from UTC
TzOffset == 3 * 3600
\* deadlines a client submits, relative to the local time of the request
DeadlineOffsets == {0 - 1, 0, LedgerStep, DAY_SECONDS, 2 * DAY_SECONDS}
\* deadlines a client submits when it edits a task
EditOffsets == {0, LedgerStep}
\* the seconds between a handler's read of the local clock and its read of UTC
Skews == {0, 1}
\* the same in SpecLedger, where the reads are taken as simultaneous
LedgerSkews == {0}
\* reminder times a client submits, relative to the local time of the request
ReminderOffsets == {0, LedgerStep}
\* the statuses a client posts to update_task_status; the last is not one
\* the handler accepts
Statuses == {"pending", "in_progress", "completed", "archived"}
\* the percentages a client posts to task_progress, of the choices 0, 10, ..., 100
Percentages == {0, 10, 90, 100}
\* the ids of the jobs start_scheduler registers
JobIds == {"reminder_check", "test_check"}
\* where a failure hits start_scheduler: nowhere, in scheduler.start(), in the
\* add_job of the interval job or in the add_job of the one-shot job
StartFailures == {"none", "start", "add_job", "test_job"}
\* whether a storage failure hits a handler's commit
Failures == {"none", "first"}

None == <<>>
Some(x) == <<x>>
Val(o) == o[1]

----------------------------------------------------------------------------
(* models.py *)

\* werkzeug generate_password_hash: a one-way image of the password
generate_password_hash(password) == <<"hash", password>>

\* User.check_password
check_password(u, password) == u.password_hash = generate_password_hash(password)

\* pyotp: the code of a secret at a time step (an injective image of both)
totp_at(secret, step) == <<secret, step>>

\* the time step of an instant
timecode(t) == t \div TOTP_INTERVAL

\* the codes a client may submit at instant t: the codes of every possible
\* secret in the steps around t, and a code of no secret
Tokens(t) ==
    {totp_at(k, timecode(t) + d) : k \in Secrets, d \in {-2, -1, 0, 1, 2}}
        \cup {<<"none", 0>>}

\* User.verify_2fa_token: totp.verify(token, valid_window=1)
verify_2fa_token(u, token, t) ==
    /\ u.two_factor_secret # None
    /\ \E d \in (0 - VALID_WINDOW)..VALID_WINDOW :
           token = totp_at(Val(u.two_factor_secret), timecode(t) + d)

\* faulty variant: no account is ever found locked
is_account_locked_never(u, t) == FALSE

\* User.is_account_locked: the value returned at instant t
is_account_locked(u, t) ==
    /\ u.account_locked_until # None
    /\ t < Val(u.account_locked_until)

\* faulty variant: an elapsed lockout is cleared and the counter kept
after_lock_check_keep_counter(u, t) ==
    IF u.account_locked_until # None /\ ~(t < Val(u.account_locked_until))
    THEN [u EXCEPT !.account_locked_until = None]
    ELSE u

\* User.is_account_locked: the row after the call at instant t (an elapsed
\* lockout is cleared together with the counter, and committed)
after_lock_check(u, t) ==
    IF u.account_locked_until # None /\ ~(t < Val(u.account_locked_until))
    THEN [u EXCEPT !.account_locked_until = None, !.failed_login_attempts = 0]
    ELSE u

\* a new users row (column defaults of models.py)
NewUser(password) ==
    [password_hash |-> generate_password_hash(password),
     two_factor_enabled |-> FALSE,
     two_factor_secret |-> None,
     failed_login_attempts |-> 0,
     account_locked_until |-> None,
     last_login |-> None]

Resp(op, view, flash, n) == [op |-> op, view |-> view, flash |-> flash, n |-> n]

----------------------------------------------------------------------------
(* app.py: registration and the login state machine *)

\* register(): a new account (validate_username rejects a taken username)
Register(username, password) ==
    /\ username \notin DOMAIN users
    /\ users' = [n \in DOMAIN users \cup {username} |->
                    IF n = username THEN NewUser(password) ELSE users[n]]
    /\ response' = Resp("register", "login", "Account created successfully! Please log in.", 0)
    /\ UNCHANGED <<sessions, attempts, ledgerVars, pollerVars, schedVars, progress, seen, now>>

\* login(), line 163: a session that is already authenticated is redirected
LoginRedirect(s) ==
    /\ sessions[s].user_id # None
    /\ response' = Resp("login", "dashboard", "", 0)
    /\ UNCHANGED <<authVars, ledgerVars, pollerVars, schedVars, progress, seen, now>>

\* faulty variant: the account is locked by the attempt after the fifth
record_failed_attempt_late(u, t) ==
    LET n == u.failed_login_attempts + 1
    IN  IF n > MAX_FAILED_ATTEMPTS
        THEN [u EXCEPT !.failed_login_attempts = n,
                       !.account_locked_until = Some(t + LOCKOUT_SECONDS)]
        ELSE [u EXCEPT !.failed_login_attempts = n]

\* faulty variant: the counter is reset when the account is locked
record_failed_attempt_reset(u, t) ==
    LET n == u.failed_login_attempts + 1
    IN  IF n >= MAX_FAILED_ATTEMPTS
        THEN [u EXCEPT !.failed_login_attempts = 0,
                       !.account_locked_until = Some(t + LOCKOUT_SECONDS)]
        ELSE [u EXCEPT !.failed_login_attempts = n]

\* login(), lines 183-188: the row after a password mismatch at instant t
record_failed_attempt(u, t) ==
    LET n == u.failed_login_attempts + 1
    IN  IF n >= MAX_FAILED_ATTEMPTS
        THEN [u EXCEPT !.failed_login_attempts = n,
                       !.account_locked_until = Some(t + LOCKOUT_SECONDS)]
        ELSE [u EXCEPT !.failed_login_attempts = n]

\* login(), lines 198-199: the row after a password match
reset_failed_attempts(u) ==
    [u EXCEPT !.failed_login_attempts = 0, !.account_locked_until = None]

\* faulty variant: the secret is consulted in place of the flag
needs_second_factor_secret(u) == u.two_factor_secret # None

\* login(), line 202: whether the login stops for the second factor
needs_second_factor(u) == u.two_factor_enabled

\* login(), lines 170-172: the answer to an unknown username
InvalidCredentials == Resp("login", "login.html", "Invalid username or password.", 0)

\* login(), lines 176-178: the answer to a locked account
AccountLocked(u, t) ==
    Resp("login", "login.html",
         "Account is locked due to multiple failed login attempts. Try again in {n} minutes.",
         (Val(u.account_locked_until) - t) \div 60)

\* login(), lines 186-193: the answer to a password mismatch, given the row it left
PasswordMismatch(u) ==
    IF u.failed_login_attempts >= MAX_FAILED_ATTEMPTS
    THEN Resp("login", "login.html",
              "Account locked due to too many failed login attempts. Please try again in 15 minutes.", 0)
    ELSE Resp("login", "login.html",
              "Invalid password. {n} attempts remaining before account lockout.",
              MAX_FAILED_ATTEMPTS - u.failed_login_attempts)

\* the history of the authenticate calls for an account, kept for the
\* properties: after a call rejected as locked it is unchanged; otherwise
\* wrong counts the consecutive wrong passwords since the account had counter
\* 0 and no lockout (up to the one that locks it), and expired says that the
\* call found an elapsed lockout
NoAttempts == [wrong |-> 0, expired |-> FALSE]

NextAttempts(h, u0, ok) ==
    [wrong |-> IF ok THEN 0
               ELSE IF h.wrong \in 1..(MAX_FAILED_ATTEMPTS - 1) THEN h.wrong + 1
               ELSE IF u0.failed_login_attempts = 0 /\ u0.account_locked_until = None THEN 1
               ELSE 0,
     expired |-> u0.account_locked_until # None]

\* login(), lines 168-215, for an anonymous session
Login(s, username, password) ==
    /\ sessions[s].user_id = None
    /\ IF username \notin DOMAIN users
       THEN \* lines 170-172
            /\ response' = InvalidCredentials
            /\ UNCHANGED <<users, sessions, attempts>>
       ELSE LET u0 == users[username]
                u == after_lock_check(u0, now)
            IN  IF is_account_locked(u0, now)
                THEN \* lines 175-178
                     /\ response' = AccountLocked(u0, now)
                     /\ UNCHANGED <<users, sessions, attempts>>
                ELSE IF ~check_password(u, password)
                THEN \* lines 181-195
                     /\ users' = [users EXCEPT ![username] = record_failed_attempt(u, now)]
                     /\ response' = PasswordMismatch(record_failed_attempt(u, now))
                     /\ attempts' = [attempts EXCEPT ![username] = NextAttempts(@, u0, FALSE)]
                     /\ UNCHANGED sessions
                ELSE IF needs_second_factor(u)
                THEN \* lines 198-206
                     /\ users' = [users EXCEPT ![username] = reset_failed_attempts(u)]
                     /\ sessions' = [sessions EXCEPT ![s].pending_2fa_user_id = Some(username)]
                     /\ response' = Resp("login", "verify_2fa", "", 0)
                     /\ attempts' = [attempts EXCEPT ![username] = NextAttempts(@, u0, TRUE)]
                ELSE \* lines 198-199, 209-215
                     /\ users' = [users EXCEPT ![username] =
                            [reset_failed_attempts(u) EXCEPT !.last_login = Some(now)]]
                     /\ sessions' = [sessions EXCEPT ![s].user_id = Some(username)]
                     /\ response' = Resp("login", "dashboard", "Welcome back, {user}!", 0)
                     /\ attempts' = [attempts EXCEPT ![username] = NextAttempts(@, u0, TRUE)]
    /\ UNCHANGED <<ledgerVars, pollerVars, schedVars, progress, seen, now>>

\* faulty variant: an invalid code counts as a failed login attempt
after_invalid_code_counted(u) ==
    [u EXCEPT !.failed_login_attempts = u.failed_login_attempts + 1]

\* verify_2fa(), lines 251-252: the row after an invalid code
after_invalid_code(u) == u

\* verify_2fa(), lines 226-229: no pending second-factor slot
Verify2FANoPending(s) ==
    /\ sessions[s].user_id = None
    /\ sessions[s].pending_2fa_user_id = None
    /\ response' = Resp("verify_2fa", "login", "Invalid session. Please login again.", 0)
    /\ UNCHANGED <<authVars, ledgerVars, pollerVars, schedVars, progress, seen, now>>

\* verify_2fa(), lines 231-254, for an anonymous session with a pending slot
\* (accounts are never deleted, so the pending user exists)
Verify2FA(s, token) ==
    /\ sessions[s].user_id = None
    /\ sessions[s].pending_2fa_user_id # None
    /\ LET username == Val(sessions[s].pending_2fa_user_id)
           u == users[username]
       IN  IF verify_2fa_token(u, token, now)
           THEN /\ sessions' = [sessions EXCEPT ![s] =
                        [user_id |-> Some(username), pending_2fa_user_id |-> None]]
                /\ users' = [users EXCEPT ![username].last_login = Some(now)]
                /\ response' = Resp("verify_2fa", "dashboard", "Welcome back, {user}!", 0)
           ELSE /\ response' = Resp("verify_2fa", "verify_2fa.html",
                                    "Invalid verification code. Please try again.", 0)
                /\ users' = [users EXCEPT ![username] = after_invalid_code(u)]
                /\ UNCHANGED sessions
    /\ UNCHANGED <<attempts, ledgerVars, pollerVars, schedVars, progress, seen, now>>

\* logout(): flask-login's logout_user drops the user id of the session and
\* leaves its other keys
Logout(s) ==
    /\ sessions[s].user_id # None
    /\ sessions' = [sessions EXCEPT ![s].user_id = None]
    /\ response' = Resp("logout", "index", "Goodbye {user}! You have been logged out successfully.", 0)
    /\ UNCHANGED <<users, attempts, ledgerVars, pollerVars, schedVars, progress, seen, now>>

----------------------------------------------------------------------------
(* app.py: 2FA enrollment *)

NoToken == <<"no form", 0>>

\* faulty variant: every visit generates a secret
ensure_2fa_secret_always(u, fresh) ==
    [u EXCEPT !.two_factor_secret = Some(fresh)]

\* enable_2fa(), lines 681-683: the row with a secret, generated if there is none
ensure_2fa_secret(u, fresh) ==
    IF u.two_factor_secret = None
    THEN [u EXCEPT !.two_factor_secret = Some(fresh)]
    ELSE u

\* enable_2fa(), lines 676-709, by the user of an authenticated session; the
\* request is a page visit (NoToken) or the submission of a code; fresh is
\* what pyotp.random_base32() returns if it is called
Enable2FA(s, token, fresh) ==
    /\ sessions[s].user_id # None
    /\ LET username == Val(sessions[s].user_id)
           u0 == users[username]
           u == ensure_2fa_secret(u0, fresh)
       IN  IF u0.two_factor_enabled
           THEN \* lines 676-678
                /\ response' = Resp("enable_2fa", "security",
                                    "Two-factor authentication is already enabled.", 0)
                /\ UNCHANGED users
           ELSE IF token # NoToken /\ verify_2fa_token(u, token, now)
           THEN \* lines 689-693
                /\ users' = [users EXCEPT ![username] = [u EXCEPT !.two_factor_enabled = TRUE]]
                /\ response' = Resp("enable_2fa", "security",
                                    "Two-factor authentication has been enabled successfully!", 0)
           ELSE \* lines 681-683, 695-709
                /\ users' = [users EXCEPT ![username] = u]
                /\ response' = Resp("enable_2fa", "enable_2fa.html",
                                    IF token = NoToken THEN ""
                                    ELSE "Invalid verification code. Please try again.", 0)
    /\ UNCHANGED <<sessions, attempts, ledgerVars, pollerVars, schedVars, progress, seen, now>>

\* faulty variant: the secret is cleared and the flag kept
after_disable_secret_only(u) == [u EXCEPT !.two_factor_secret = None]

\* disable_2fa(), lines 721-722: the row after the two assignments
after_disable(u) == [u EXCEPT !.two_factor_enabled = FALSE, !.two_factor_secret = None]

\* disable_2fa(), lines 715-728
Disable2FA(s) ==
    /\ sessions[s].user_id # None
    /\ LET username == Val(sessions[s].user_id)
       IN  IF ~users[username].two_factor_enabled
           THEN /\ response' = Resp("disable_2fa", "json 400",
                                    "Two-factor authentication is not enabled", 0)
                /\ UNCHANGED users
           ELSE /\ users' = [users EXCEPT ![username] = after_disable(@)]
                /\ response' = Resp("disable_2fa", "json 200",
                                    "Two-factor authentication has been disabled.", 0)
    /\ UNCHANGED <<sessions, attempts, ledgerVars, pollerVars, schedVars, progress, seen, now>>

----------------------------------------------------------------------------
(* The clock *)

AdvanceTime(d, limit) ==
    /\ now + d <= limit
    /\ now' = now + d
    /\ UNCHANGED <<authVars, ledgerVars, pollerVars, schedVars, progress, seen, response>>

----------------------------------------------------------------------------
(* The login specification: an empty database, anonymous sessions *)

Init ==
    /\ users = <<>>
    /\ sessions = [s \in Sessions |-> [user_id |-> None, pending_2fa_user_id |-> None]]
    /\ tasks = <<>>
    /\ reminders = <<>>
    /\ nextTaskId = 1
    /\ nextReminderId = 1
    /\ progress = <<>>
    /\ seen = [s \in Sessions |-> None]
    /\ scheduler_started = FALSE
    /\ scheduler = [running |-> FALSE, jobs |-> {}, starts |-> 0]
    /\ pollerPc = [j \in JobIds |-> "idle"]
    /\ pollerBatch = [j \in JobIds |-> {}]
    /\ pollerLog = [j \in JobIds |-> "none"]
    /\ now = 0
    /\ response = Resp("none", "", "", 0)
    /\ attempts = [n \in Usernames \cup LedgerUsers |-> NoAttempts]

Next ==
    \/ \E n \in Usernames, p \in Passwords : Register(n, p)
    \/ \E s \in Sessions : LoginRedirect(s)
    \/ \E s \in Sessions, n \in LoginNames, p \in Passwords : Login(s, n, p)
    \/ \E s \in Sessions : Verify2FANoPending(s)
    \/ \E s \in Sessions : \E token \in Tokens(now) : Verify2FA(s, token)
    \/ \E s \in Sessions : Logout(s)
    \/ \E s \in Sessions, k \in Secrets :
           \E token \in Tokens(now) \cup {NoToken} : Enable2FA(s, token, k)
    \/ \E s \in Sessions : Disable2FA(s)
    \/ \E d \in AuthDeltas : AdvanceTime(d, MaxAuthClock * AuthStep)

Spec == Init /\ [][Next]_vars

----------------------------------------------------------------------------
(* app.py: tasks and reminders *)

\* faulty variant: every session is taken for the same user
current_user_shared(s) == "alice"

\* the session's user, for a @login_required handler
current_user(s) == Val(sessions[s].user_id)

\* datetime.now(): the local wall clock
now_local == now + TzOffset

\* a table with one more row
Insert(table, id, row) ==
    [i \in DOMAIN table \cup {id} |-> IF i = id THEN row ELSE table[i]]

\* a table without the rows of ids
Delete(table, ids) == [i \in DOMAIN table \ ids |-> table[i]]

\* a tasks row (column defaults of models.py)
NewTaskRow(user, deadline) ==
    [user_id |-> user, status |-> "pending", deadline |-> deadline, completed_at |-> None]

\* a reminders row (column defaults of models.py)
NewReminderRow(user, task, time) ==
    [user_id |-> user, task_id |-> task, reminder_time |-> time, is_sent |-> FALSE]

\* faulty variant: a deadline equal to the local time is accepted
deadline_rejected_strict(deadline_local, t_local) == deadline_local < t_local

\* new_task(), line 358: the deadline is not in the future
deadline_rejected(deadline_local, t_local) == deadline_local <= t_local

\* a datetime without tzinfo: datetime.now(), a form's DateTimeLocalField, and
\* what subtracting a timedelta from one gives
Naive(t) == [t |-> t, tzinfo |-> FALSE]

\* datetime.now(timezone.utc): a datetime that carries tzinfo
Aware(t) == [t |-> t, tzinfo |-> TRUE]

\* an ordering comparison of two datetimes raises TypeError when one of them
\* carries tzinfo and the other does not
compare_raises(a, b) == a.tzinfo # b.tzinfo

\* new_task(), line 379: the derived reminder is stored
reminder_derived(reminder_time_utc, now_utc) == reminder_time_utc.t > now_utc.t

\* new_task(), lines 350-397: deadline_local is the submitted deadline, skew
\* the time between the handler's reads of datetime.now() and
\* datetime.now(timezone.utc), fail whether a storage failure hits line 375
NewTask(s, deadline_local, skew, fail) ==
    /\ sessions[s].user_id # None
    /\ LET now_utc == Aware(now + skew)
           utc_offset == now_local - now_utc.t
           deadline_utc == Naive(deadline_local - utc_offset)
           reminder_time_utc == Naive(deadline_utc.t - DAY_SECONDS)
           id == nextTaskId
           withTask == Insert(tasks, id, NewTaskRow(current_user(s), deadline_utc.t))
       IN  IF deadline_rejected(deadline_local, now_local)
           THEN \* lines 358-360
                /\ response' = Resp("new_task", "task_form.html", "Deadline must be in the future.", 0)
                /\ UNCHANGED ledgerVars
           ELSE IF fail = "first"
           THEN \* line 375 raises: lines 393-397
                /\ response' = Resp("new_task", "task_form.html", "Error creating task: {e}", 0)
                /\ UNCHANGED ledgerVars
           ELSE IF compare_raises(reminder_time_utc, now_utc)
           THEN \* line 379 raises after line 375 committed the task: lines 393-397
                /\ tasks' = withTask
                /\ nextTaskId' = id + 1
                /\ response' = Resp("new_task", "task_form.html", "Error creating task: {e}", 0)
                /\ UNCHANGED <<reminders, nextReminderId>>
           ELSE IF reminder_derived(reminder_time_utc, now_utc)
           THEN \* lines 380-391
                /\ tasks' = withTask
                /\ nextTaskId' = id + 1
                /\ reminders' = Insert(reminders, nextReminderId,
                       NewReminderRow(current_user(s), Some(id), reminder_time_utc.t))
                /\ nextReminderId' = nextReminderId + 1
                /\ response' = Resp("new_task", "tasks", "Task created successfully!", 0)
           ELSE \* lines 390-391
                /\ tasks' = withTask
                /\ nextTaskId' = id + 1
                /\ response' = Resp("new_task", "tasks", "Task created successfully!", 0)
                /\ UNCHANGED <<reminders, nextReminderId>>
    /\ UNCHANGED <<authVars, pollerVars, schedVars, progress, seen, now>>

\* edit_task(), lines 403-440
EditTask(s, id, deadline_local, skew, fail) ==
    /\ sessions[s].user_id # None
    /\ LET now_utc == now + skew
           utc_offset == now_local - now_utc
           deadline_utc == deadline_local - utc_offset
       IN  IF id \notin DOMAIN tasks
           THEN /\ response' = Resp("edit_task", "404", "", 0)
                /\ UNCHANGED tasks
           ELSE IF tasks[id].user_id # current_user(s)
           THEN /\ response' = Resp("edit_task", "tasks", "You do not have permission to edit this task.", 0)
                /\ UNCHANGED tasks
           ELSE IF tasks[id].status # "completed" /\ deadline_local <= now_local
           THEN /\ response' = Resp("edit_task", "task_form.html", "Deadline must be in the future for active tasks.", 0)
                /\ UNCHANGED tasks
           ELSE IF fail = "first"
           THEN /\ response' = Resp("edit_task", "task_form.html", "Error updating task: {e}", 0)
                /\ UNCHANGED tasks
           ELSE /\ tasks' = [tasks EXCEPT ![id].deadline = deadline_utc]
                /\ response' = Resp("edit_task", "tasks", "Task updated successfully!", 0)
    /\ UNCHANGED <<authVars, reminders, nextTaskId, nextReminderId, pollerVars, schedVars, progress, seen, now>>

\* delete_task(), lines 446-456; the delete cascades to the task's reminders
\* and progress records (models.py:95-96)
DeleteTask(s, id) ==
    /\ sessions[s].user_id # None
    /\ IF id \notin DOMAIN tasks
       THEN /\ response' = Resp("delete_task", "404", "", 0)
            /\ UNCHANGED <<tasks, reminders, progress>>
       ELSE IF tasks[id].user_id # current_user(s)
       THEN /\ response' = Resp("delete_task", "tasks", "You do not have permission to delete this task.", 0)
            /\ UNCHANGED <<tasks, reminders, progress>>
       ELSE /\ tasks' = Delete(tasks, {id})
            /\ reminders' = Delete(reminders,
                   {r \in DOMAIN reminders : reminders[r].task_id = Some(id)})
            /\ progress' = SelectSeq(progress, LAMBDA p : p.task_id # id)
            /\ response' = Resp("delete_task", "tasks", "Task deleted successfully!", 0)
    /\ UNCHANGED <<authVars, nextTaskId, nextReminderId, pollerVars, schedVars, seen, now>>

\* new_reminder(), lines 585-631
NewReminder(s, reminder_time_local, skew, fail) ==
    /\ sessions[s].user_id # None
    /\ LET now_utc == now + skew
           utc_offset == now_local - now_utc
           reminder_time_utc == reminder_time_local - utc_offset
       IN  IF reminder_time_local <= now_local
           THEN \* lines 595-597
                /\ response' = Resp("new_reminder", "reminder_form.html", "Reminder time must be in the future.", 0)
                /\ UNCHANGED <<reminders, nextReminderId>>
           ELSE IF fail = "first"
           THEN \* line 613 raises: lines 625-627
                /\ response' = Resp("new_reminder", "reminder_form.html", "Error creating reminder: {e}", 0)
                /\ UNCHANGED <<reminders, nextReminderId>>
           ELSE /\ reminders' = Insert(reminders, nextReminderId,
                       NewReminderRow(current_user(s), None, reminder_time_utc))
                /\ nextReminderId' = nextReminderId + 1
                /\ response' = Resp("new_reminder", "reminders", "Reminder set successfully!", 0)
    /\ UNCHANGED <<authVars, tasks, nextTaskId, pollerVars, schedVars, progress, seen, now>>

\* delete_reminder(), lines 637-647
DeleteReminder(s, id) ==
    /\ sessions[s].user_id # None
    /\ IF id \notin DOMAIN reminders
       THEN /\ response' = Resp("delete_reminder", "404", "", 0)
            /\ UNCHANGED reminders
       ELSE IF reminders[id].user_id # current_user(s)
       THEN /\ response' = Resp("delete_reminder", "reminders", "You do not have permission to delete this reminder.", 0)
            /\ UNCHANGED reminders
       ELSE /\ reminders' = Delete(reminders, {id})
            /\ response' = Resp("delete_reminder", "reminders", "Reminder deleted successfully!", 0)
    /\ UNCHANGED <<authVars, tasks, nextTaskId, nextReminderId, pollerVars, schedVars, progress, seen, now>>

\* faulty variant: the flag is flipped
mark_seen_toggle(row) == [row EXCEPT !.is_sent = ~row.is_sent]

\* mark_reminder_seen(), line 803: the write
mark_seen(row) == [row EXCEPT !.is_sent = TRUE]

\* faulty variant: a reminder that was read as sent is answered with a conflict
seen_answer_conflict(row) == IF row.is_sent THEN "json 409" ELSE "json 200"

\* mark_reminder_seen(), line 807: the answer after the commit
seen_answer(row) == "json 200"

\* mark_reminder_seen(), lines 794-810, run without another thread in between;
\* the 404 of get_or_404 is raised inside the try and answered by the except
MarkReminderSeen(s, id, fail) ==
    /\ sessions[s].user_id # None
    /\ IF id \notin DOMAIN reminders
       THEN /\ response' = Resp("mark_reminder_seen", "json 500", "error", 0)
            /\ UNCHANGED reminders
       ELSE IF reminders[id].user_id # current_user(s)
       THEN /\ response' = Resp("mark_reminder_seen", "json 403", "Unauthorized", 0)
            /\ UNCHANGED reminders
       ELSE IF fail = "first"
       THEN /\ response' = Resp("mark_reminder_seen", "json 500", "error", 0)
            /\ UNCHANGED reminders
       ELSE /\ reminders' = [reminders EXCEPT ![id] = mark_seen(@)]
            /\ response' = Resp("mark_reminder_seen", seen_answer(reminders[id]), "success", 0)
    /\ UNCHANGED <<authVars, tasks, nextTaskId, nextReminderId, pollerVars, schedVars, progress, seen, now>>

\* mark_reminder_seen(), lines 797-801, as the first of its two steps: the
\* read of the row and the check of its owner
MarkSeenLoad(s, id) ==
    /\ sessions[s].user_id # None
    /\ seen[s] = None
    /\ IF id \notin DOMAIN reminders
       THEN /\ response' = Resp("mark_reminder_seen", "json 500", "error", 0)
            /\ UNCHANGED seen
       ELSE IF reminders[id].user_id # current_user(s)
       THEN /\ response' = Resp("mark_reminder_seen", "json 403", "Unauthorized", 0)
            /\ UNCHANGED seen
       ELSE /\ seen' = [seen EXCEPT ![s] = Some([id |-> id, row |-> reminders[id]])]
            /\ UNCHANGED response
    /\ UNCHANGED <<authVars, ledgerVars, progress, pollerVars, schedVars, now>>

\* mark_reminder_seen(), lines 803-810, as the second step: the write and the
\* commit.  A row read as sent is not written again; the update of a row that
\* was deleted meanwhile fails, as does a commit hit by a storage failure.
MarkSeenCommit(s, fail) ==
    /\ seen[s] # None
    /\ LET id == Val(seen[s]).id
           row == Val(seen[s]).row
       IN  IF fail = "first" \/ (mark_seen(row) # row /\ id \notin DOMAIN reminders)
           THEN /\ response' = Resp("mark_reminder_seen", "json 500", "error", 0)
                /\ UNCHANGED reminders
           ELSE /\ reminders' = IF mark_seen(row) = row
                                THEN reminders
                                ELSE [reminders EXCEPT ![id].is_sent = mark_seen(row).is_sent]
                /\ response' = Resp("mark_reminder_seen", seen_answer(row), "success", 0)
    /\ seen' = [seen EXCEPT ![s] = None]
    /\ UNCHANGED <<authVars, tasks, nextTaskId, nextReminderId, progress, pollerVars,
                   schedVars, now>>

----------------------------------------------------------------------------
(* app.py: task status and progress *)

\* a progress row
NewProgressRow(user, task, percentage) ==
    [user_id |-> user, task_id |-> task, progress_percentage |-> percentage]

\* the progress records of task id, oldest first
ProgressOf(id) == SelectSeq(progress, LAMBDA p : p.task_id = id)

\* complete_task(), lines 461-487
CompleteTask(s, id, fail) ==
    /\ sessions[s].user_id # None
    /\ IF id \notin DOMAIN tasks
       THEN /\ response' = Resp("complete_task", "404", "", 0)
            /\ UNCHANGED <<tasks, progress>>
       ELSE IF tasks[id].user_id # current_user(s)
       THEN /\ response' = Resp("complete_task", "json 403", "Unauthorized", 0)
            /\ UNCHANGED <<tasks, progress>>
       ELSE IF fail = "first"
       THEN \* line 483 raises: lines 486-487
            /\ response' = Resp("complete_task", "json 500", "error", 0)
            /\ UNCHANGED <<tasks, progress>>
       ELSE LET records == ProgressOf(id)
                latest_is_100 ==
                    /\ records # <<>>
                    /\ records[Len(records)].progress_percentage = 100
            IN  /\ tasks' = [tasks EXCEPT ![id].status = "completed",
                                          ![id].completed_at = Some(now)]
                /\ progress' = IF latest_is_100
                               THEN progress
                               ELSE Append(progress, NewProgressRow(current_user(s), id, 100))
                /\ response' = Resp("complete_task", "json 200", "Task marked as complete!", 0)
    /\ UNCHANGED <<authVars, reminders, nextTaskId, nextReminderId, pollerVars, schedVars,
                   seen, now>>

\* faulty variant: completed_at is kept when the status moves away from completed
completed_at_kept(new_status, old, t) ==
    IF new_status = "completed" THEN Some(t) ELSE old

\* update_task_status(), lines 506-511: completed_at for the new status
completed_at_for(new_status, old, t) ==
    IF new_status = "completed" THEN Some(t) ELSE None

\* update_task_status(), lines 493-520
UpdateTaskStatus(s, id, new_status, fail) ==
    /\ sessions[s].user_id # None
    /\ IF id \notin DOMAIN tasks
       THEN /\ response' = Resp("update_task_status", "404", "", 0)
            /\ UNCHANGED tasks
       ELSE IF tasks[id].user_id # current_user(s)
       THEN /\ response' = Resp("update_task_status", "json 403", "Unauthorized", 0)
            /\ UNCHANGED tasks
       ELSE IF new_status \notin {"pending", "in_progress", "completed"}
       THEN /\ response' = Resp("update_task_status", "json 400", "Invalid status", 0)
            /\ UNCHANGED tasks
       ELSE IF fail = "first"
       THEN \* line 514 raises: lines 518-520
            /\ response' = Resp("update_task_status", "json 500", "error", 0)
            /\ UNCHANGED tasks
       ELSE /\ tasks' = [tasks EXCEPT
                ![id].status = new_status,
                ![id].completed_at = completed_at_for(new_status, tasks[id].completed_at, now)]
            /\ response' = Resp("update_task_status", "json 200", "Task status updated to {status}", 0)
    /\ UNCHANGED <<authVars, reminders, nextTaskId, nextReminderId, progress, pollerVars,
                   schedVars, seen, now>>

\* faulty variant: any percentage above 0 moves the task to in_progress
after_progress_any(task, percentage, t) ==
    IF percentage = 100
    THEN [task EXCEPT !.status = "completed", !.completed_at = Some(t)]
    ELSE IF percentage > 0
    THEN [task EXCEPT !.status = "in_progress"]
    ELSE task

\* task_progress(), lines 544-549: the task row after a progress record
after_progress(task, percentage, t) ==
    IF percentage = 100
    THEN [task EXCEPT !.status = "completed", !.completed_at = Some(t)]
    ELSE IF percentage > 0 /\ task.status = "pending"
    THEN [task EXCEPT !.status = "in_progress"]
    ELSE task

\* task_progress(), lines 525-562, for a submitted form
TaskProgress(s, id, percentage, fail) ==
    /\ sessions[s].user_id # None
    /\ IF id \notin DOMAIN tasks
       THEN /\ response' = Resp("task_progress", "404", "", 0)
            /\ UNCHANGED <<tasks, progress>>
       ELSE IF tasks[id].user_id # current_user(s)
       THEN /\ response' = Resp("task_progress", "tasks", "You do not have permission to view this task.", 0)
            /\ UNCHANGED <<tasks, progress>>
       ELSE IF fail = "first"
       THEN \* line 552 raises: lines 556-562
            /\ response' = Resp("task_progress", "progress.html", "Error updating progress: {e}", 0)
            /\ UNCHANGED <<tasks, progress>>
       ELSE /\ progress' = Append(progress, NewProgressRow(current_user(s), id, percentage))
            /\ tasks' = [tasks EXCEPT ![id] = after_progress(tasks[id], percentage, now)]
            /\ response' = Resp("task_progress", "task_progress", "Progress updated successfully!", 0)
    /\ UNCHANGED <<authVars, reminders, nextTaskId, nextReminderId, pollerVars, schedVars,
                   seen, now>>

----------------------------------------------------------------------------
(* app.py: the reminder poller *)

\* faulty variant: a reminder is due only after its fire time
DueStrict(r, t) == r.reminder_time < t /\ r.is_sent = FALSE

\* the due predicate of check_reminders, lines 52-55
Due(r, t) == r.reminder_time <= t /\ r.is_sent = FALSE

\* faulty variant: the commit flips the flag of every reminder of the batch
MarkSentFlip(table, batch) ==
    [i \in DOMAIN table |->
        IF i \in batch THEN [table[i] EXCEPT !.is_sent = ~table[i].is_sent] ELSE table[i]]

\* the rows the commit of a tick writes: is_sent of every reminder of the batch
MarkSent(table, batch) ==
    [i \in DOMAIN table |-> IF i \in batch THEN [table[i] EXCEPT !.is_sent = TRUE] ELSE table[i]]

\* faulty variant: every call of start_scheduler runs its body
start_needed_always == TRUE

\* start_scheduler(), line 81: the guard of the body
start_needed == ~scheduler_started

\* start_scheduler(), lines 78-120.  A failure is caught by the except of
\* line 117 and leaves what the lines before it did.
StartScheduler(fail) ==
    /\ IF ~start_needed
       THEN UNCHANGED schedVars
       ELSE LET removed == scheduler.jobs \ {"reminder_check"}          \* lines 84-85
                start_fails == fail = "start" /\ ~scheduler.running    \* line 88
                started == [scheduler EXCEPT                           \* lines 87-89
                               !.running = TRUE,
                               !.starts = IF scheduler.running THEN @ ELSE @ + 1]
            IN  IF start_fails
                THEN /\ scheduler' = [scheduler EXCEPT !.jobs = removed]
                     /\ UNCHANGED scheduler_started
                ELSE IF fail = "add_job"
                THEN \* line 93 raises
                     /\ scheduler' = [started EXCEPT !.jobs = removed]
                     /\ UNCHANGED scheduler_started
                ELSE IF fail = "test_job"
                THEN \* line 110 raises after line 102
                     /\ scheduler' = [started EXCEPT !.jobs = removed \cup {"reminder_check"}]
                     /\ scheduler_started' = TRUE
                ELSE /\ scheduler' = [started EXCEPT
                            !.jobs = removed \cup {"reminder_check", "test_check"}]
                     /\ scheduler_started' = TRUE
    /\ UNCHANGED <<authVars, ledgerVars, progress, seen, pollerVars, now, response>>

\* a run of job j starts when the scheduler runs, holds the job and no
\* earlier run of that job is still executing (max_instances=1, line 99, and
\* the default of add_job at line 110); a run that would overlap is skipped
CanRun(j) ==
    /\ scheduler.running
    /\ j \in scheduler.jobs
    /\ pollerPc[j] = "idle"

\* faulty variant: every job leaves the job store when it has fired
AfterFireOnce(j) == [scheduler EXCEPT !.jobs = @ \ {j}]

\* the job store after job j fired: a date-triggered job fires once
AfterFire(j) ==
    IF j = "test_check" THEN [scheduler EXCEPT !.jobs = @ \ {j}] ELSE scheduler

\* check_reminders(), lines 44-65, run by job j: the query and the in-memory
\* marking, which prints one notification for each reminder of the batch
CheckRemindersQuery(j) ==
    /\ CanRun(j)
    /\ LET pending_reminders == {i \in DOMAIN reminders : Due(reminders[i], now)}
       IN  /\ pollerBatch' = [pollerBatch EXCEPT ![j] = pending_reminders]
           /\ pollerPc' = [pollerPc EXCEPT ![j] =
                              IF pending_reminders # {} THEN "commit" ELSE "idle"]
    /\ scheduler' = AfterFire(j)
    /\ UNCHANGED <<authVars, ledgerVars, progress, seen, scheduler_started, pollerLog,
                   now, response>>

\* faulty variant: a failed commit leaves one reminder of the batch marked
AfterFailedCommitPartial(table, batch) ==
    IF batch \cap DOMAIN table = {}
    THEN table
    ELSE MarkSent(table, {CHOOSE i \in batch \cap DOMAIN table : TRUE})

\* check_reminders(), lines 69-75: the reminders table after a commit that
\* failed; the session is discarded with the application context
AfterFailedCommit(table, batch) == table

\* check_reminders(), lines 67-75: the commit.  It fails on a storage failure
\* or when a row of the batch was deleted meanwhile; the failure is caught and
\* printed
CheckRemindersCommit(j, fail) ==
    /\ pollerPc[j] = "commit"
    /\ IF fail = "first" \/ ~(pollerBatch[j] \subseteq DOMAIN reminders)
       THEN /\ reminders' = AfterFailedCommit(reminders, pollerBatch[j])
            /\ pollerLog' = [pollerLog EXCEPT ![j] = "error"]
       ELSE /\ reminders' = MarkSent(reminders, pollerBatch[j])
            /\ pollerLog' = [pollerLog EXCEPT ![j] = "success"]
    /\ pollerPc' = [pollerPc EXCEPT ![j] = "idle"]
    /\ pollerBatch' = [pollerBatch EXCEPT ![j] = {}]
    /\ UNCHANGED <<authVars, tasks, nextTaskId, nextReminderId, progress, seen,
                   schedVars, now, response>>

----------------------------------------------------------------------------
(* The ledger specification: two registered accounts, each logged in from *)
(* its own session at instant 0, an empty ledger, and the scheduler       *)
(* started with its one-shot check already run                            *)

InitLedger ==
    /\ users = [n \in LedgerUsers |-> [NewUser("pw1") EXCEPT !.last_login = Some(0)]]
    /\ sessions = [s \in Sessions |->
           [user_id |-> Some(IF s = "s1" THEN "alice" ELSE "bob"),
            pending_2fa_user_id |-> None]]
    /\ tasks = <<>>
    /\ reminders = <<>>
    /\ nextTaskId = 1
    /\ nextReminderId = 1
    /\ progress = <<>>
    /\ seen = [s \in Sessions |-> None]
    /\ scheduler_started = TRUE
    /\ scheduler = [running |-> TRUE, jobs |-> {"reminder_check"}, starts |-> 1]
    /\ pollerPc = [j \in JobIds |-> "idle"]
    /\ pollerBatch = [j \in JobIds |-> {}]
    /\ pollerLog = [j \in JobIds |-> "none"]
    /\ now = 0
    /\ response = Resp("none", "", "", 0)
    /\ attempts = [n \in Usernames \cup LedgerUsers |-> NoAttempts]

TaskIds == 1..MaxTasks
ReminderIds == 1..MaxReminders

\* a request that passes validation is made only while the bounds leave
\* room for the row it creates
RoomForTask(d) == d <= 0 \/ nextTaskId <= MaxTasks
RoomForReminder(d) == d <= 0 \/ nextReminderId <= MaxReminders

NextLedger ==
    \/ \E s \in Sessions, d \in DeadlineOffsets, skew \in LedgerSkews, fail \in Failures :
           RoomForTask(d) /\ NewTask(s, now_local + d, skew, fail)
    \/ \E s \in Sessions, id \in TaskIds, d \in EditOffsets, skew \in LedgerSkews,
          fail \in Failures : EditTask(s, id, now_local + d, skew, fail)
    \/ \E s \in Sessions, id \in TaskIds : DeleteTask(s, id)
    \/ \E s \in Sessions, d \in ReminderOffsets, skew \in LedgerSkews, fail \in Failures :
           RoomForReminder(d) /\ NewReminder(s, now_local + d, skew, fail)
    \/ \E s \in Sessions, id \in ReminderIds : DeleteReminder(s, id)
    \/ \E s \in Sessions, id \in ReminderIds, fail \in Failures : MarkReminderSeen(s, id, fail)
    \/ CheckRemindersQuery("reminder_check")
    \/ \E fail \in Failures : CheckRemindersCommit("reminder_check", fail)
    \/ \E d \in LedgerDeltas : AdvanceTime(d, MaxLedgerClock * LedgerStep)

SpecLedger == InitLedger /\ [][NextLedger]_vars

----------------------------------------------------------------------------
(* The task specification: the creation and deletion of tasks alone, from *)
(* the same initial state, with the two clock reads of new_task apart     *)

NextTasks ==
    \/ \E s \in Sessions, d \in DeadlineOffsets, skew \in Skews, fail \in Failures :
           RoomForTask(d) /\ NewTask(s, now_local + d, skew, fail)
    \/ \E s \in Sessions, id \in TaskIds : DeleteTask(s, id)
    \/ \E d \in LedgerDeltas : AdvanceTime(d, MaxLedgerClock * LedgerStep)

SpecTasks == InitLedger /\ [][NextTasks]_vars

----------------------------------------------------------------------------
(* The status specification: the life of a task, from the same initial     *)
(* state                                                                   *)

\* a progress record is added only while the bound leaves room for it
RoomForProgress == Len(progress) < MaxProgress

NextStatus ==
    \/ \E s \in Sessions, d \in EditOffsets, skew \in LedgerSkews, fail \in Failures :
           RoomForTask(d) /\ NewTask(s, now_local + d, skew, fail)
    \/ \E s \in Sessions, id \in TaskIds, d \in EditOffsets, skew \in LedgerSkews,
          fail \in Failures : EditTask(s, id, now_local + d, skew, fail)
    \/ \E s \in Sessions, id \in TaskIds, fail \in Failures :
           RoomForProgress /\ CompleteTask(s, id, fail)
    \/ \E s \in Sessions, id \in TaskIds, new_status \in Statuses, fail \in Failures :
           UpdateTaskStatus(s, id, new_status, fail)
    \/ \E s \in Sessions, id \in TaskIds, percentage \in Percentages, fail \in Failures :
           RoomForProgress /\ TaskProgress(s, id, percentage, fail)
    \/ \E s \in Sessions, id \in TaskIds : DeleteTask(s, id)
    \/ \E d \in LedgerDeltas : AdvanceTime(d, MaxLedgerClock * LedgerStep)

SpecStatus == InitLedger /\ [][NextStatus]_vars

----------------------------------------------------------------------------
(* The ownership specification: the two accounts of the same initial      *)
(* state, each making every request on a task or a reminder by its id,    *)
(* whoever owns it                                                         *)

\* a storage failure hits a handler after its check of the owner; the
\* requests of this specification are made without one
NoFailure == {"none"}

NextOwnership ==
    \/ \E s \in Sessions, d \in EditOffsets, skew \in LedgerSkews, fail \in NoFailure :
           RoomForTask(d) /\ NewTask(s, now_local + d, skew, fail)
    \/ \E s \in Sessions, d \in ReminderOffsets, skew \in LedgerSkews, fail \in NoFailure :
           RoomForReminder(d) /\ NewReminder(s, now_local + d, skew, fail)
    \/ \E s \in Sessions, id \in TaskIds, d \in EditOffsets, skew \in LedgerSkews,
          fail \in NoFailure : EditTask(s, id, now_local + d, skew, fail)
    \/ \E s \in Sessions, id \in TaskIds : DeleteTask(s, id)
    \/ \E s \in Sessions, id \in TaskIds, fail \in NoFailure :
           RoomForProgress /\ CompleteTask(s, id, fail)
    \/ \E s \in Sessions, id \in TaskIds, new_status \in Statuses, fail \in NoFailure :
           UpdateTaskStatus(s, id, new_status, fail)
    \/ \E s \in Sessions, id \in TaskIds, percentage \in Percentages, fail \in NoFailure :
           RoomForProgress /\ TaskProgress(s, id, percentage, fail)
    \/ \E s \in Sessions, id \in ReminderIds : DeleteReminder(s, id)
    \/ \E s \in Sessions, id \in ReminderIds, fail \in NoFailure : MarkReminderSeen(s, id, fail)

SpecOwnership == InitLedger /\ [][NextOwnership]_vars

----------------------------------------------------------------------------
(* The poller specification: reminders and the runs of the interval job,  *)
(* from the same initial state                                            *)

NextPoller ==
    \/ \E s \in Sessions, d \in ReminderOffsets, skew \in LedgerSkews, fail \in Failures :
           RoomForReminder(d) /\ NewReminder(s, now_local + d, skew, fail)
    \/ \E s \in Sessions, id \in ReminderIds : DeleteReminder(s, id)
    \/ CheckRemindersQuery("reminder_check")
    \/ \E fail \in Failures : CheckRemindersCommit("reminder_check", fail)
    \/ \E d \in LedgerDeltas : AdvanceTime(d, MaxLedgerClock * LedgerStep)

SpecPoller == InitLedger /\ [][NextPoller]_vars

----------------------------------------------------------------------------
(* The race specification: the runs of the interval job and the           *)
(* mark_reminder_seen requests, each in two steps, from the same initial  *)
(* state                                                                  *)

NextRace ==
    \/ \E s \in Sessions, d \in ReminderOffsets, skew \in LedgerSkews, fail \in Failures :
           RoomForReminder(d) /\ NewReminder(s, now_local + d, skew, fail)
    \/ \E s \in Sessions, id \in ReminderIds : DeleteReminder(s, id)
    \/ \E s \in Sessions, id \in ReminderIds : MarkSeenLoad(s, id)
    \/ \E s \in Sessions, fail \in Failures : MarkSeenCommit(s, fail)
    \/ CheckRemindersQuery("reminder_check")
    \/ \E fail \in Failures : CheckRemindersCommit("reminder_check", fail)
    \/ \E d \in LedgerDeltas : AdvanceTime(d, MaxLedgerClock * LedgerStep)

SpecRace == InitLedger /\ [][NextRace]_vars

----------------------------------------------------------------------------
(* The delivery specification: reminders, their owners' mark-seen         *)
(* requests and the runs of the interval job, which fires again and again *)
(* (line 95), whose runs end, and whose commits do not fail forever       *)

NextDelivery ==
    \/ \E s \in Sessions, d \in ReminderOffsets, skew \in LedgerSkews, fail \in Failures :
           RoomForReminder(d) /\ NewReminder(s, now_local + d, skew, fail)
    \/ \E s \in Sessions, id \in ReminderIds : DeleteReminder(s, id)
    \/ \E s \in Sessions, id \in ReminderIds, fail \in Failures : MarkReminderSeen(s, id, fail)
    \/ CheckRemindersQuery("reminder_check")
    \/ \E fail \in Failures : CheckRemindersCommit("reminder_check", fail)
    \/ \E d \in LedgerDeltas : AdvanceTime(d, MaxLedgerClock * LedgerStep)

SpecDelivery ==
    /\ InitLedger
    /\ [][NextDelivery]_vars
    /\ WF_vars(CheckRemindersQuery("reminder_check"))
    /\ WF_vars(\E fail \in Failures : CheckRemindersCommit("reminder_check", fail))
    /\ SF_vars(/\ pollerBatch["reminder_check"] \subseteq DOMAIN reminders
               /\ CheckRemindersCommit("reminder_check", "none"))

----------------------------------------------------------------------------
(* The scheduler specification: the same accounts and sessions, the        *)
(* scheduler not yet started                                               *)

InitScheduler ==
    /\ users = [n \in LedgerUsers |-> [NewUser("pw1") EXCEPT !.last_login = Some(0)]]
    /\ sessions = [s \in Sessions |->
           [user_id |-> Some(IF s = "s1" THEN "alice" ELSE "bob"),
            pending_2fa_user_id |-> None]]
    /\ tasks = <<>>
    /\ reminders = <<>>
    /\ nextTaskId = 1
    /\ nextReminderId = 1
    /\ progress = <<>>
    /\ seen = [s \in Sessions |-> None]
    /\ scheduler_started = FALSE
    /\ scheduler = [running |-> FALSE, jobs |-> {}, starts |-> 0]
    /\ pollerPc = [j \in JobIds |-> "idle"]
    /\ pollerBatch = [j \in JobIds |-> {}]
    /\ pollerLog = [j \in JobIds |-> "none"]
    /\ now = 0
    /\ response = Resp("none", "", "", 0)
    /\ attempts = [n \in Usernames \cup LedgerUsers |-> NoAttempts]

NextScheduler ==
    \/ \E fail \in StartFailures : StartScheduler(fail)
    \/ \E j \in JobIds : CheckRemindersQuery(j)
    \/ \E j \in JobIds, fail \in Failures : CheckRemindersCommit(j, fail)
    \/ \E s \in Sessions, d \in ReminderOffsets, skew \in LedgerSkews, fail \in Failures :
           RoomForReminder(d) /\ NewReminder(s, now_local + d, skew, fail)
    \/ \E d \in LedgerDeltas : AdvanceTime(d, MaxLedgerClock * LedgerStep)

SpecScheduler == InitScheduler /\ [][NextScheduler]_vars

----------------------------------------------------------------------------
(* Properties of the login state machine, checked under Spec *)

Registered == DOMAIN users

\* the codes that are valid for a row at instant t: those of its stored
\* secret in the current time step and the two adjacent ones
ValidCodes(u, t) ==
    IF u.two_factor_secret = None THEN {}
    ELSE {totp_at(Val(u.two_factor_secret), timecode(t) + d) : d \in {0 - 1, 0, 1}}

\* the account's lockout is set and has not elapsed
LockedNow(n) ==
    /\ users[n].account_locked_until # None
    /\ now < Val(users[n].account_locked_until)

\* the account's lockout is set and has elapsed
LockElapsed(n) ==
    /\ users[n].account_locked_until # None
    /\ now >= Val(users[n].account_locked_until)

PasswordOk(n, p) == users[n].password_hash = generate_password_hash(p)

\* C2: the fifth of five consecutive wrong passwords, counted from a counter of
\* 0 and no lockout, sets lockout-until to the instant of that call plus 15
\* minutes; every authenticate call made for the account before that instant,
\* whatever its password, is answered as locked and changes neither the
\* account nor the session.
C2_LockAfterFiveWrong ==
    [][ /\ \A n \in Registered :
              (attempts[n].wrong = 4 /\ attempts'[n].wrong = 5)
                  => users'[n].account_locked_until = Some(now + 15 * 60)
        /\ \A s \in Sessions, n \in Registered, p \in Passwords :
              (response'.op = "login" /\ LockedNow(n) /\ Login(s, n, p))
                  => /\ response' = AccountLocked(users[n], now)
                     /\ users' = users
                     /\ sessions' = sessions
      ]_vars

\* C2 witness: the account was locked by its fifth consecutive wrong password
\* and a later call, made before the lockout elapsed, was answered as locked.
C2_Witness ==
    \E n \in Registered :
        /\ attempts[n].wrong = 5
        /\ LockedNow(n)
        /\ now > 0
        /\ response = AccountLocked(users[n], now)

\* C3 as amended: the call that locks the account leaves the stored counter at
\* 5, so in every state the lockout is set exactly when the counter is 5.
C3_LockedCounterIsFive ==
    \A n \in Registered :
        (users[n].account_locked_until # None) <=> (users[n].failed_login_attempts = 5)

\* C3 witness: a locked account, just answered with the lockout message.
C3_Witness ==
    \E n \in Registered :
        /\ LockedNow(n)
        /\ response = PasswordMismatch(users[n])

\* C3 as stated: every state in which the account is locked has counter 0.
C3_Original ==
    \A n \in Registered :
        users[n].account_locked_until # None => users[n].failed_login_attempts = 0

\* C4: an authenticate call that finds an elapsed lockout clears it and the
\* counter before the password check: with the right password the session is
\* admitted or awaits its second factor and the stored counter is 0 and the
\* lockout null; with a wrong one the counter is 1 and the lockout null.  Every
\* call that passes the password check leaves counter 0 and no lockout.
C4_ExpiredLockoutCleared ==
    [][ \A s \in Sessions, n \in Registered, p \in Passwords :
          (response'.op = "login" /\ Login(s, n, p)) =>
            /\ (LockElapsed(n) /\ PasswordOk(n, p)) =>
                   /\ users'[n].failed_login_attempts = 0
                   /\ users'[n].account_locked_until = None
                   /\ \/ sessions'[s].user_id = Some(n)
                      \/ sessions'[s].pending_2fa_user_id = Some(n)
            /\ (LockElapsed(n) /\ ~PasswordOk(n, p)) =>
                   /\ users'[n].failed_login_attempts = 1
                   /\ users'[n].account_locked_until = None
                   /\ sessions' = sessions
            /\ (~LockedNow(n) /\ PasswordOk(n, p)) =>
                   /\ users'[n].failed_login_attempts = 0
                   /\ users'[n].account_locked_until = None
      ]_vars

\* C4 witness: the last authenticate call found an elapsed lockout and was
\* admitted with the right password.
C4_Witness ==
    \E s \in Sessions, n \in Registered :
        /\ attempts[n].expired
        /\ attempts[n].wrong = 0
        /\ sessions[s].user_id = Some(n)
        /\ users[n].last_login = Some(now)
        /\ users[n].failed_login_attempts = 0
        /\ users[n].account_locked_until = None
        /\ response = Resp("login", "dashboard", "Welcome back, {user}!", 0)

\* what the caller of login() observes of an answer
Observable(r) == <<r.view, r.flash, r.n>>

\* C5: a wrong password for a known, unlocked username is answered exactly as
\* an unknown username is.
C5_UniformRejection ==
    [][ \A s \in Sessions, n \in Registered, p \in Passwords :
          (response'.op = "login" /\ ~LockedNow(n) /\ ~PasswordOk(n, p) /\ Login(s, n, p))
              => Observable(response') = Observable(InvalidCredentials)
      ]_vars

\* C6: with two-factor enabled a password match stores the pending user id,
\* answers with the second-factor step and leaves the session anonymous and
\* last-login as it was; the session of such a user becomes authenticated only
\* by a verify_2fa call with a valid code, which clears the pending slot and
\* sets last-login.  Without two-factor a password match authenticates the
\* session and sets last-login.
C6_SecondFactorGate ==
    [][ /\ \A s \in Sessions, n \in Registered, p \in Passwords :
              (response'.op = "login" /\ ~LockedNow(n) /\ PasswordOk(n, p) /\ Login(s, n, p)) =>
                  IF users[n].two_factor_enabled
                  THEN /\ sessions'[s] = [user_id |-> None, pending_2fa_user_id |-> Some(n)]
                       /\ users'[n].last_login = users[n].last_login
                       /\ response'.view = "verify_2fa"
                  ELSE /\ sessions'[s].user_id = Some(n)
                       /\ users'[n].last_login = Some(now)
                       /\ response'.view = "dashboard"
        /\ \A s \in Sessions, n \in Registered :
              (sessions[s].user_id = None /\ sessions'[s].user_id = Some(n)
                    /\ users[n].two_factor_enabled) =>
                  /\ sessions[s].pending_2fa_user_id = Some(n)
                  /\ \E token \in ValidCodes(users[n], now) : Verify2FA(s, token)
                  /\ sessions'[s].pending_2fa_user_id = None
                  /\ users'[n].last_login = Some(now)
      ]_vars

\* C6 witness: a session of a two-factor user authenticated by verify_2fa.
C6_Witness ==
    \E s \in Sessions, n \in Registered :
        /\ users[n].two_factor_enabled
        /\ sessions[s].user_id = Some(n)
        /\ sessions[s].pending_2fa_user_id = None
        /\ response = Resp("verify_2fa", "dashboard", "Welcome back, {user}!", 0)

\* C7: a verify_2fa call with a code that is not valid changes no account (its
\* counter, lockout and last-login included) and no session (the pending slot
\* stays, no session is established), so it can be repeated: a verify_2fa step
\* that changes any of them, or answers otherwise, is the step of no such call.
C7_InvalidCodeChangesNothing ==
    [][ (/\ response'.op = "verify_2fa"
         /\ \/ users' # users
            \/ sessions' # sessions
            \/ response'.view # "verify_2fa.html")
          => \A s \in Sessions : \A token \in Tokens(now) :
                (/\ sessions[s].pending_2fa_user_id # None
                 /\ token \notin ValidCodes(users[Val(sessions[s].pending_2fa_user_id)], now))
                    => ~Verify2FA(s, token)
      ]_vars

\* C7 witness: an invalid code was just refused and the slot is still pending.
C7_Witness ==
    \E s \in Sessions :
        /\ sessions[s].pending_2fa_user_id # None
        /\ sessions[s].user_id = None
        /\ response = Resp("verify_2fa", "verify_2fa.html",
                           "Invalid verification code. Please try again.", 0)

\* C8: enable_2fa keeps a stored secret as it is (a stored secret changes
\* only when disable_2fa clears it); two_factor_enabled becomes true only in
\* an enable_2fa call by that user with a code valid for the stored secret,
\* and in no call with a code that is not valid for it.
C8_EnrollmentSecretOnce ==
    [][ \A n \in Registered :
          /\ (/\ users[n].two_factor_secret # None
              /\ users'[n].two_factor_secret # users[n].two_factor_secret)
                 => /\ response'.op = "disable_2fa"
                    /\ users'[n].two_factor_secret = None
          /\ (~users[n].two_factor_enabled /\ users'[n].two_factor_enabled) =>
                 /\ \E s \in Sessions, k \in Secrets :
                       /\ sessions[s].user_id = Some(n)
                       /\ \E token \in ValidCodes(users'[n], now) : Enable2FA(s, token, k)
                 /\ \A s \in Sessions, k \in Secrets :
                       \A token \in (Tokens(now) \cup {NoToken}) \ ValidCodes(users'[n], now) :
                           sessions[s].user_id # None => ~Enable2FA(s, token, k)
      ]_vars

\* C8 witness: a code was refused by enable_2fa, the secret is stored and the
\* flag is false.
C8_Witness ==
    \E n \in Registered :
        /\ users[n].two_factor_secret # None
        /\ ~users[n].two_factor_enabled
        /\ response = Resp("enable_2fa", "enable_2fa.html",
                           "Invalid verification code. Please try again.", 0)

----------------------------------------------------------------------------
(* Properties of the ledger *)

\* C1: a reminder that is sent stays sent for as long as it exists, whatever
\* the poller, mark-seen, creations, edits and deletions do (checked under
\* SpecLedger).
C1_SentMonotonic ==
    [][ \A r \in DOMAIN reminders :
          (reminders[r].is_sent /\ r \in DOMAIN reminders') => reminders'[r].is_sent
      ]_vars

\* C1 witness: a sent reminder while a poller tick holds another reminder to
\* commit.
C1_Witness ==
    \E r \in DOMAIN reminders :
        /\ reminders[r].is_sent
        /\ pollerPc["reminder_check"] = "commit"
        /\ pollerBatch["reminder_check"] # {}

\* the rows of table t2 that table t1 does not hold
Added(t1, t2) == DOMAIN t2 \ DOMAIN t1

\* C9: new_task with a deadline after the request's local time, and no storage
\* failure, reports success and stores one task (pending, owned by the
\* requester, deadline converted to UTC); it stores one reminder (unsent, same
\* owner, linked to the task, at the stored deadline minus 24 hours) if and only
\* if the deadline minus 24 hours is after the request's instant, and no
\* reminder otherwise (checked under SpecTasks).
C9_DerivedReminder ==
    [][ \A s \in Sessions, d \in DeadlineOffsets, skew \in Skews :
          (response'.op = "new_task" /\ d > 0 /\ NewTask(s, now_local + d, skew, "none")) =>
            /\ response' = Resp("new_task", "tasks", "Task created successfully!", 0)
            /\ \E t \in Added(tasks, tasks') :
                  /\ Added(tasks, tasks') = {t}
                  /\ tasks'[t] = [user_id |-> current_user(s), status |-> "pending",
                                  deadline |-> now + d + skew, completed_at |-> None]
                  /\ \A i \in DOMAIN tasks : tasks'[i] = tasks[i]
                  /\ IF d - DAY_SECONDS > 0
                     THEN \E r \in Added(reminders, reminders') :
                            /\ Added(reminders, reminders') = {r}
                            /\ reminders'[r] =
                                 [user_id |-> current_user(s), task_id |-> Some(t),
                                  reminder_time |-> tasks'[t].deadline - 24 * 3600,
                                  is_sent |-> FALSE]
                            /\ \A i \in DOMAIN reminders : reminders'[i] = reminders[i]
                     ELSE reminders' = reminders
      ]_vars

\* C10: new_task with a deadline not after the request's local time answers
\* with the validation message and stores nothing: a new_task step that
\* answers otherwise or changes the ledger is the step of no such request
\* (checked under SpecTasks).
C10_PastDeadlineRejected ==
    [][ (/\ response'.op = "new_task"
         /\ \/ response' # Resp("new_task", "task_form.html", "Deadline must be in the future.", 0)
            \/ <<tasks, reminders, nextTaskId, nextReminderId>>'
                  # <<tasks, reminders, nextTaskId, nextReminderId>>)
          => \A s \in Sessions, d \in DeadlineOffsets, skew \in Skews, fail \in Failures :
                d <= 0 => ~NewTask(s, now_local + d, skew, fail)
      ]_vars

\* C10 witness: a deadline was just refused.
C10_Witness ==
    response = Resp("new_task", "task_form.html", "Deadline must be in the future.", 0)

----------------------------------------------------------------------------
(* Properties of the units of work *)

\* C11: a new_task request that reports an error has stored nothing: neither
\* the task nor a reminder (checked under SpecTasks).
C11_ErrorStoresNothing ==
    [][ (response'.op = "new_task" /\ response'.flash = "Error creating task: {e}")
          => (tasks' = tasks /\ reminders' = reminders)
      ]_vars

----------------------------------------------------------------------------
(* Properties of the task tracker, checked under SpecStatus *)

\* C12: in every state every task has completed_at set exactly when its
\* status is completed.
C12_CompletedAtIffCompleted ==
    \A t \in DOMAIN tasks :
        (tasks[t].completed_at # None) <=> (tasks[t].status = "completed")

\* C12 witness: a task that had been completed (it holds a progress record of
\* 100) was just moved away from completed by update_task_status.
C12_Witness ==
    \E t \in DOMAIN tasks :
        /\ tasks[t].status # "completed"
        /\ tasks[t].completed_at = None
        /\ \E i \in DOMAIN progress :
              progress[i].task_id = t /\ progress[i].progress_percentage = 100
        /\ response = Resp("update_task_status", "json 200", "Task status updated to {status}", 0)

\* C13: task_progress by the task's owner, with no storage failure, appends
\* one progress record and reports success; percentage 100 gives status
\* completed and completed_at set, from any status; a percentage of 10..90
\* gives in_progress if the status was pending; in every other case status
\* and completed_at stay as they were.  No other task changes.
C13_ProgressStatus ==
    [][ \A s \in Sessions, id \in DOMAIN tasks, percentage \in Percentages :
          (/\ response'.op = "task_progress"
           /\ tasks[id].user_id = current_user(s)
           /\ TaskProgress(s, id, percentage, "none")) =>
            /\ response'.flash = "Progress updated successfully!"
            /\ Len(progress') = Len(progress) + 1
            /\ SubSeq(progress', 1, Len(progress)) = progress
            /\ progress'[Len(progress')] =
                   [user_id |-> current_user(s), task_id |-> id,
                    progress_percentage |-> percentage]
            /\ \A i \in DOMAIN tasks \ {id} : tasks'[i] = tasks[i]
            /\ id \in DOMAIN tasks'
            /\ tasks'[id].deadline = tasks[id].deadline
            /\ IF percentage = 100
               THEN /\ tasks'[id].status = "completed"
                    /\ tasks'[id].completed_at # None
               ELSE IF percentage \in 10..90 /\ tasks[id].status = "pending"
               THEN /\ tasks'[id].status = "in_progress"
                    /\ tasks'[id].completed_at = tasks[id].completed_at
               ELSE /\ tasks'[id].status = tasks[id].status
                    /\ tasks'[id].completed_at = tasks[id].completed_at
      ]_vars

\* C13 witness: a progress record below 100 was just added to a completed
\* task, which stays completed.
C13_Witness ==
    /\ response = Resp("task_progress", "task_progress", "Progress updated successfully!", 0)
    /\ progress # <<>>
    /\ progress[Len(progress)].progress_percentage \in 10..90
    /\ progress[Len(progress)].task_id \in DOMAIN tasks
    /\ tasks[progress[Len(progress)].task_id].status = "completed"

----------------------------------------------------------------------------
(* Properties of the poller, checked under SpecPoller *)

\* the reminders with fire time at or before t that are not sent
DueAt(t) == {i \in DOMAIN reminders : reminders[i].reminder_time <= t /\ ~reminders[i].is_sent}

\* a step of job j's run that commits with success
CommitSucceeds(j) ==
    /\ pollerBatch[j] \subseteq DOMAIN reminders
    /\ CheckRemindersCommit(j, "none")

\* a step of job j's run whose commit fails
CommitFails(j) ==
    \/ CheckRemindersCommit(j, "first")
    \/ ~(pollerBatch[j] \subseteq DOMAIN reminders) /\ CheckRemindersCommit(j, "none")

\* C14: a tick at instant t takes exactly the reminders with fire time <= t
\* and not sent, and its successful commit marks them sent and leaves every
\* other reminder, and every other column, as it was; none of them is due
\* afterwards, and a tick that finds no reminder due changes nothing.
C14_TickMarksExactlyTheDue ==
    [][ \A j \in JobIds :
          /\ CheckRemindersQuery(j) =>
                /\ pollerBatch'[j] = DueAt(now)
                /\ reminders' = reminders
                /\ DueAt(now) = {} =>
                      /\ pollerPc' = pollerPc
                      /\ pollerBatch' = pollerBatch
                      /\ pollerLog' = pollerLog
          /\ CommitSucceeds(j) =>
                /\ DOMAIN reminders' = DOMAIN reminders
                /\ \A i \in DOMAIN reminders :
                      reminders'[i] = IF i \in pollerBatch[j]
                                      THEN [reminders[i] EXCEPT !.is_sent = TRUE]
                                      ELSE reminders[i]
                /\ \A i \in pollerBatch[j] : ~Due(reminders'[i], now')
                /\ tasks' = tasks
      ]_vars

\* C14 witness: a tick committed with success, one reminder is sent and another
\* exists that was not due and is not sent.
C14_Witness ==
    /\ pollerLog["reminder_check"] = "success"
    /\ pollerPc["reminder_check"] = "idle"
    /\ \E i, k \in DOMAIN reminders : reminders[i].is_sent /\ ~reminders[k].is_sent

\* C15: a tick whose commit fails writes nothing: the reminders, and the rest
\* of the ledger, are as before; every reminder of its batch that still
\* exists is unsent and due, so the next tick takes it again; the failure is
\* printed and the job can run again.
C15_FailedTickWritesNothing ==
    [][ \A j \in JobIds :
          CommitFails(j) =>
              /\ reminders' = reminders
              /\ tasks' = tasks
              /\ progress' = progress
              /\ \A i \in pollerBatch[j] \cap DOMAIN reminders : i \in DueAt(now)'
              /\ pollerLog'[j] = "error"
              /\ CanRun(j)'
      ]_vars

\* C15 witness: the commit of a tick failed and a later tick holds the same
\* reminders again.
C15_Witness ==
    /\ pollerLog["reminder_check"] = "error"
    /\ pollerPc["reminder_check"] = "commit"
    /\ pollerBatch["reminder_check"] # {}
    /\ pollerBatch["reminder_check"] = DueAt(now)

----------------------------------------------------------------------------
(* Properties of the scheduler, checked under SpecScheduler *)

\* the jobs whose run of check_reminders is executing
Executing == {j \in JobIds : pollerPc[j] # "idle"}

\* C16: at no time are two runs of check_reminders executing.
C16_NoOverlappingRuns == Cardinality(Executing) <= 1

\* C17: scheduler.start() is called at most once; once start_scheduler has
\* succeeded the scheduler runs, was started once and holds the job
\* reminder_check, and a further call of start_scheduler changes nothing.
C17_StartIsIdempotent ==
    [][ /\ scheduler'.starts <= 1
        /\ scheduler_started' =>
              /\ scheduler'.running
              /\ scheduler'.starts = 1
              /\ "reminder_check" \in scheduler'.jobs
        /\ \A fail \in StartFailures :
              (scheduler_started /\ StartScheduler(fail)) => UNCHANGED vars
      ]_vars

\* C17 witness: start_scheduler has succeeded, the one-shot job has fired (its
\* commit failed) and left the job store, and a run of the interval job has
\* committed.
C17_Witness ==
    /\ scheduler_started
    /\ scheduler.starts = 1
    /\ scheduler.jobs = {"reminder_check"}
    /\ pollerLog["test_check"] = "error"
    /\ pollerLog["reminder_check"] = "success"

----------------------------------------------------------------------------
(* Properties of mark_reminder_seen against the poller, checked under      *)
(* SpecRace                                                                *)

\* table with the flag of the rows of ids set and nothing else changed
WithSent(table, ids) ==
    [i \in DOMAIN table |->
        IF i \in ids
        THEN [user_id |-> table[i].user_id, task_id |-> table[i].task_id,
              reminder_time |-> table[i].reminder_time, is_sent |-> TRUE]
        ELSE table[i]]

\* C18: however the two steps of a mark_reminder_seen request and the two
\* steps of a tick are interleaved, each commit that succeeds gives what it
\* gives when run alone: the request's reminder, or the reminders of the
\* tick's batch, sent and every other reminder as it was.  So once both have
\* committed the reminder they share is sent, as in either sequential order.
C18_RaceEndsSent ==
    [][ /\ \A s \in Sessions :
              (/\ seen[s] # None
               /\ Val(seen[s]).id \in DOMAIN reminders
               /\ MarkSeenCommit(s, "none"))
                  => reminders' = WithSent(reminders, {Val(seen[s]).id})
        /\ \A j \in JobIds :
              CommitSucceeds(j) => reminders' = WithSent(reminders, pollerBatch[j])
      ]_vars

\* C18 witness: a request read a due, unsent reminder and has not committed,
\* and the tick that held the same reminder has committed it meanwhile.
C18_Witness ==
    \E s \in Sessions :
        /\ seen[s] # None
        /\ ~Val(seen[s]).row.is_sent
        /\ Val(seen[s]).id \in DOMAIN reminders
        /\ reminders[Val(seen[s]).id].is_sent
        /\ pollerLog["reminder_check"] = "success"

\* C19: a mark_reminder_seen request by the owner that reads its reminder as
\* sent answers with success and changes no reminder.
C19_MarkSeenIdempotent ==
    [][ \A s \in Sessions :
          (/\ seen[s] # None
           /\ Val(seen[s]).row.is_sent
           /\ MarkSeenCommit(s, "none"))
              => /\ reminders' = reminders
                 /\ tasks' = tasks
                 /\ response' = Resp("mark_reminder_seen", "json 200", "success", 0)
      ]_vars

\* C19 witness: the owner's first request was answered with success and their
\* second request has read the reminder as sent.
C19_Witness ==
    /\ response = Resp("mark_reminder_seen", "json 200", "success", 0)
    /\ pollerLog["reminder_check"] = "none"
    /\ \E s \in Sessions :
          /\ seen[s] # None
          /\ Val(seen[s]).row.is_sent

----------------------------------------------------------------------------
(* Delivery, checked under SpecDelivery *)

\* reminder i exists, its fire time has been reached and it is not sent
IsDue(i) == i \in DOMAIN reminders /\ Due(reminders[i], now)

\* reminder i was deleted or is sent
Settled(i) == i \notin DOMAIN reminders \/ reminders[i].is_sent

\* C20 as amended: every reminder whose fire time has been reached is
\* eventually sent, unless it is deleted.
C20_DueIsEventuallySent ==
    \A i \in ReminderIds : IsDue(i) ~> Settled(i)

\* C20 witness: a tick holds a due reminder again after a commit that failed.
C20_Witness ==
    /\ pollerLog["reminder_check"] = "error"
    /\ pollerPc["reminder_check"] = "commit"
    /\ \E i \in pollerBatch["reminder_check"] : IsDue(i)

\* C20 as stated: every such reminder is eventually sent and a tick has
\* emitted its notification.
C20_Original ==
    \A i \in ReminderIds :
        /\ IsDue(i) ~> Settled(i)
        /\ IsDue(i) ~> (i \notin DOMAIN reminders \/ i \in pollerBatch["reminder_check"])

----------------------------------------------------------------------------
(* Ownership, checked under SpecOwnership *)

\* the tables
Store == <<users, tasks, reminders, progress, nextTaskId, nextReminderId>>

\* the answers that reject a request as unauthorized: a 403, or a redirect to
\* the caller's own list with a message
UnauthorizedAnswers ==
    {Resp("edit_task", "tasks", "You do not have permission to edit this task.", 0),
     Resp("delete_task", "tasks", "You do not have permission to delete this task.", 0),
     Resp("complete_task", "json 403", "Unauthorized", 0),
     Resp("update_task_status", "json 403", "Unauthorized", 0),
     Resp("task_progress", "tasks", "You do not have permission to view this task.", 0),
     Resp("delete_reminder", "reminders", "You do not have permission to delete this reminder.", 0),
     Resp("mark_reminder_seen", "json 403", "Unauthorized", 0)}

\* session s is authenticated as a user who does not own task id
ForeignTask(s, id) ==
    /\ sessions[s].user_id # None
    /\ id \in DOMAIN tasks
    /\ tasks[id].user_id # Val(sessions[s].user_id)

\* session s is authenticated as a user who does not own reminder id
ForeignReminder(s, id) ==
    /\ sessions[s].user_id # None
    /\ id \in DOMAIN reminders
    /\ reminders[id].user_id # Val(sessions[s].user_id)

\* the requests of session s on task id
TaskRequest(s, id) ==
    \/ \E d \in EditOffsets, skew \in LedgerSkews, fail \in NoFailure :
           EditTask(s, id, now_local + d, skew, fail)
    \/ DeleteTask(s, id)
    \/ \E fail \in NoFailure : CompleteTask(s, id, fail)
    \/ \E new_status \in Statuses, fail \in NoFailure : UpdateTaskStatus(s, id, new_status, fail)
    \/ \E percentage \in Percentages, fail \in NoFailure : TaskProgress(s, id, percentage, fail)

\* the requests of session s on reminder id
ReminderRequest(s, id) ==
    \/ DeleteReminder(s, id)
    \/ \E fail \in NoFailure : MarkReminderSeen(s, id, fail)

\* C21: a request on a task or a reminder by a user who does not own it is
\* answered as unauthorized and changes no table.
C21_ForeignRequestRejected ==
    [][ /\ \A s \in Sessions, id \in TaskIds :
              (ForeignTask(s, id) /\ TaskRequest(s, id))
                  => (response' \in UnauthorizedAnswers /\ UNCHANGED Store)
        /\ \A s \in Sessions, id \in ReminderIds :
              (ForeignReminder(s, id) /\ ReminderRequest(s, id))
                  => (response' \in UnauthorizedAnswers /\ UNCHANGED Store)
      ]_vars

\* C21 witness: a task and a reminder of alice exist and bob's request to
\* mark the reminder seen was answered 403.
C21_Witness ==
    /\ \E id \in DOMAIN tasks : tasks[id].user_id = "alice"
    /\ \E id \in DOMAIN reminders : reminders[id].user_id = "alice" /\ ~reminders[id].is_sent
    /\ response = Resp("mark_reminder_seen", "json 403", "Unauthorized", 0)

----------------------------------------------------------------------------
(* The login state machine again, checked under Spec *)

\* the least number of minutes that covers a span of seconds
CeilingMinutes(seconds) == (seconds + 59) \div 60

\* C22: an authenticate call rejected because the account is locked reports
\* the ceiling of the remaining lockout time in minutes.
C22_RemainingMinutesCeiling ==
    [][ \A n \in Registered :
          (LockedNow(n) /\ response'.op = "login"
              /\ \E s \in Sessions, p \in Passwords : Login(s, n, p))
            => response'.n = CeilingMinutes(Val(users[n].account_locked_until) - now)
      ]_vars

\* C23: while an account's lockout is in the future, no step makes a session
\* an authenticated session of that account.
C23_NoSessionWhileLocked ==
    [][ \A s \in Sessions, n \in Registered :
          (LockedNow(n) /\ sessions[s].user_id # Some(n))
              => sessions'[s].user_id # Some(n)
      ]_vars

\* C24: every account's failed-attempt counter is within 0..5 and is 5 only
\* while its lockout is set; no step changes the counter of an account whose
\* lockout is in the future.
C24_CounterRange ==
    /\ [](\A n \in Registered :
             /\ users[n].failed_login_attempts \in 0..MAX_FAILED_ATTEMPTS
             /\ users[n].failed_login_attempts = MAX_FAILED_ATTEMPTS
                    => users[n].account_locked_until # None)
    /\ [][ \A n \in Registered :
             LockedNow(n)
                 => users'[n].failed_login_attempts = users[n].failed_login_attempts
         ]_vars

\* C24 witness: an authenticate call for a locked account with counter 5 was
\* rejected as locked.
C24_Witness ==
    \E n \in Registered :
        /\ LockedNow(n)
        /\ users[n].failed_login_attempts = MAX_FAILED_ATTEMPTS
        /\ response = AccountLocked(users[n], now)

\* C25: an account with two_factor_enabled set has a two-factor secret, and a
\* step that clears the flag of an account clears its secret with it.
C25_EnabledHasSecret ==
    /\ [](\A n \in Registered :
             users[n].two_factor_enabled => users[n].two_factor_secret # None)
    /\ [][ \A n \in Registered :
             (users[n].two_factor_enabled /\ ~users'[n].two_factor_enabled)
                 => users'[n].two_factor_secret = None
         ]_vars

\* C25 witness: the account of an authenticated session has just disabled its
\* second factor, and has neither the flag nor a secret.
C25_Witness ==
    \E s \in Sessions, n \in Registered :
        /\ sessions[s].user_id = Some(n)
        /\ response = Resp("disable_2fa", "json 200",
                           "Two-factor authentication has been disabled.", 0)
        /\ ~users[n].two_factor_enabled
        /\ users[n].two_factor_secret = None

====
